---- MODULE Spec2Model ----
(***************************************************************************)
(* A model of py-datastore's core: the byte streams and object channels of *)
(* datastore/core/util/stream.py and the datastore contract, the trivial   *)
(* backends and the adapter of datastore/core/binarystore.py.              *)
(*                                                                         *)
(* Byte strings are sequences over Byte.  An iterable handed to the stream *)
(* layer is the sequence of the items its iterator still has to produce;   *)
(* an item is a chunk of bytes or a marker saying that the iterator raises *)
(* at that step.  Python's None is modelled by the number None (-1) where  *)
(* it stands for an absent integer, and by a boolean field where it stands *)
(* for an absent object.                                                   *)
(***************************************************************************)
EXTENDS Integers, Sequences, FiniteSets, TLC

\* ------------------------------------------------------------------ bounds
MaxChunks == 2
MaxChunkLen == 2
MaxRecv == 2
MaxValueLen == 1
MaxDepth == 1

MaxSources == 2

MaxSides == 1

MaxHandles == 3
MaxNodes == 3
MaxWalks == 3
MaxFrames == 8
MaxTasks == 2
MaxOverdrawn == 1

\* ------------------------------------------------------------------ values
None == 0 - 1

Byte == {1, 2}

BytesUpTo(n) == UNION {[1..m -> Byte] : m \in 0..n}

Min(a, b) == IF a < b THEN a ELSE b

\* Python's value[lo:hi] for 0 <= lo, 0 <= hi
Slice(value, lo, hi) == SubSeq(value, lo + 1, Min(hi, Len(value)))

\* An item of an iterator: a chunk, or "next() raises here".
Chunk(b) == [raises |-> FALSE, data |-> b]

Raise == [raises |-> TRUE, data |-> <<>>]

SeqsUpTo(S, n) == UNION {[1..m -> S] : m \in 0..n}

RECURSIVE TotalLen(_)
TotalLen(items) ==
  IF items = <<>> THEN 0 ELSE Len(Head(items).data) + TotalLen(Tail(items))

\* The concatenation of the chunks of a sequence of items.
RECURSIVE Concat(_)
Concat(items) ==
  IF items = <<>> THEN <<>> ELSE Head(items).data \o Concat(Tail(items))

\* ---------------------------------------------- normalized byte streams
\* _WrapingIterReceiveStreamBase.__init__ : the fields of a fresh wrapper.
\* source = FALSE stands for `_source is None`; iter holds what the source
\* iterator still yields; released and reads are history (the source's
\* close() was called; how often next() was called).
IterStream(kind, items, size, closeRaises) ==
  [kind |-> kind, source |-> TRUE, iter |-> items, size |-> size,
   buffer |-> <<>>, memview |-> FALSE, offset |-> 0, closed |-> FALSE,
   closeRaises |-> closeRaises, released |-> FALSE, reads |-> 0]

\* _WrapingSyncIterReceiveStream._receive
\* a _receive that hands on an empty item as it comes
SyncIter_receive_asis(it) ==
  IF it = <<>> THEN [iter |-> <<>>, tag |-> "data", data |-> <<>>, n |-> 1]
  ELSE IF Head(it).raises THEN [iter |-> Tail(it), tag |-> "Error", data |-> <<>>, n |-> 1]
  ELSE [iter |-> Tail(it), tag |-> "data", data |-> Head(it).data, n |-> 1]

RECURSIVE SyncIter_receive(_)
SyncIter_receive(it) ==
  IF it = <<>> THEN [iter |-> <<>>, tag |-> "data", data |-> <<>>, n |-> 1]
  ELSE IF Head(it).raises
    THEN [iter |-> Tail(it), tag |-> "Error", data |-> <<>>, n |-> 1]
  ELSE IF Len(Head(it).data) < 1
    THEN LET r == SyncIter_receive(Tail(it)) IN [r EXCEPT !.n = @ + 1]
  ELSE [iter |-> Tail(it), tag |-> "data", data |-> Head(it).data, n |-> 1]

\* _WrapingAsyncIterReceiveStream._receive
RECURSIVE AsyncIter_receive(_)
AsyncIter_receive(it) ==
  IF it = <<>> THEN [iter |-> <<>>, tag |-> "data", data |-> <<>>, n |-> 1]
  ELSE IF Head(it).raises
    THEN [iter |-> Tail(it), tag |-> "Error", data |-> <<>>, n |-> 1]
  ELSE IF Len(Head(it).data) < 1
    THEN LET r == AsyncIter_receive(Tail(it)) IN [r EXCEPT !.n = @ + 1]
  ELSE [iter |-> Tail(it), tag |-> "data", data |-> Head(it).data, n |-> 1]

_receive(s) ==
  IF s.kind = "sync" THEN SyncIter_receive(s.iter) ELSE AsyncIter_receive(s.iter)

\* an aclose that releases the source and leaves the stream unmarked
aclose_unmarked(s, _mark_closed) ==
  IF ~s.source THEN [s |-> s, tag |-> "ok"]
  ELSE [s |-> [s EXCEPT !.released = TRUE, !.source = FALSE,
                        !.memview = FALSE, !.buffer = <<>>],
        tag |-> IF s.closeRaises THEN "Error" ELSE "ok"]

\* _WrapingIterReceiveStreamBase.aclose
aclose(s, _mark_closed) ==
  LET s1 == IF ~s.closed /\ _mark_closed THEN [s EXCEPT !.closed = TRUE] ELSE s
  IN IF ~s1.source THEN [s |-> s1, tag |-> "ok"]
     ELSE [s |-> [s1 EXCEPT !.released = TRUE, !.source = FALSE,
                            !.memview = FALSE, !.buffer = <<>>],
           tag |-> IF s1.closeRaises THEN "Error" ELSE "ok"]

\* the stash at the end of _WrapingIterReceiveStreamBase.receive_some
Stash(s, value, max_bytes) ==
  IF max_bytes # None /\ max_bytes > Len(value)
    THEN [s |-> [s EXCEPT !.buffer = @ \o Slice(value, max_bytes, Len(value)),
                          !.memview = TRUE],
          tag |-> "data", data |-> Slice(value, 0, max_bytes)]
    ELSE [s |-> s, tag |-> "data", data |-> value]

\* receive_some, serving from the buffer what has not been delivered yet
FromBuffer(s, max_bytes, end_offset) ==
  IF end_offset >= Len(s.buffer)
    THEN [s |-> [s EXCEPT !.offset = 0, !.memview = FALSE, !.buffer = <<>>],
          tag |-> "data", data |-> Slice(s.buffer, s.offset, end_offset)]
    ELSE [s |-> s, tag |-> "data", data |-> Slice(s.buffer, s.offset, end_offset)]

\* receive_some, at the end of the source: what aclose(_mark_closed=False) left
AtEnd(c) ==
  [s |-> c.s, tag |-> IF c.tag = "ok" THEN "data" ELSE c.tag, data |-> <<>>]

\* receive_some, after `value = await self._receive(max_bytes)` gave r
Received(s, r, max_bytes) ==
  IF r.tag # "data" THEN [s |-> s, tag |-> r.tag, data |-> <<>>]
  ELSE IF Len(r.data) < 1 THEN AtEnd(aclose(s, FALSE))
  ELSE Stash(s, r.data, max_bytes)

\* the source iterator after _receive returned or raised r
Advanced(s, r) == [s EXCEPT !.iter = r.iter, !.reads = @ + r.n]

FromSource(s, r, max_bytes) == Received(Advanced(s, r), r, max_bytes)

\* _WrapingIterReceiveStreamBase.receive_some
receive_some(s, max_bytes) ==
  IF s.closed THEN [s |-> s, tag |-> "ClosedResourceError", data |-> <<>>]
  ELSE IF ~s.source THEN [s |-> s, tag |-> "data", data |-> <<>>]
  ELSE IF s.memview /\ Len(s.buffer) > 0 THEN
    FromBuffer(s, max_bytes,
               IF max_bytes # None THEN Min(s.offset + max_bytes, Len(s.buffer))
               ELSE Len(s.buffer))
  ELSE FromSource(s, _receive(s), max_bytes)

\* ReceiveStream.collect : the loop
RECURSIVE collect_loop(_, _, _)
collect_chunk(r, max_bytes, value) ==
  IF r.tag # "data" THEN [s |-> r.s, tag |-> r.tag, data |-> value]
  ELSE IF Len(r.data) < 1 THEN [s |-> r.s, tag |-> "data", data |-> value]
  ELSE collect_loop(r.s, max_bytes, value \o r.data)

collect_loop(s, max_bytes, value) ==
  collect_chunk(receive_some(s, max_bytes), max_bytes, value)

\* ReceiveStream.collect : what leaves `async with self` after its aclose()
collect_exit(body, exit) ==
  IF exit.tag # "ok" THEN [s |-> exit.s, tag |-> exit.tag, data |-> <<>>]
  ELSE IF body.tag # "data" THEN [s |-> exit.s, tag |-> body.tag, data |-> <<>>]
  ELSE [s |-> exit.s, tag |-> "data", data |-> body.data]

\* a collect that leaves the stream as its loop left it
collect_body_open(body) == collect_exit(body, [s |-> body.s, tag |-> "ok"])

collect_body(body) == collect_exit(body, aclose(body.s, TRUE))

\* ReceiveStream.collect
collect(s) == collect_body(collect_loop(s, s.size, <<>>))

\* The shapes receive_stream_from accepts: a bytes object, a sequence
\* (tuple, list) of chunks, another synchronous iterable, an asynchronous
\* iterable, an awaitable of one buffer, and a ReceiveStream.
NoStream == [IterStream("sync", <<>>, None, FALSE) EXCEPT !.source = FALSE]

Value(shape, items, closeRaises) ==
  [shape |-> shape, items |-> items, closeRaises |-> closeRaises,
   stream |-> NoStream]

BytesValue(b) == Value("bytes", <<Chunk(b)>>, FALSE)

StreamValue(s) == [Value("stream", <<>>, FALSE) EXCEPT !.stream = s]

\* receive_stream_from
receive_stream_from(v) ==
  IF v.shape = "stream" THEN v.stream
  ELSE IF v.shape \in {"aiter", "await"}
    THEN IterStream("async", v.items, None, v.closeRaises)
  ELSE IF v.shape \in {"bytes", "seq"}
    THEN IterStream("sync", v.items, TotalLen(v.items), v.closeRaises)
  ELSE IterStream("sync", v.items, None, v.closeRaises)

\* ------------------------------------------------------ tee byte streams
\* A tee is modelled with what it owns: the TeeingReceiveStream object
\* (tee), its upstream stream (up) and the memory channels and tasks of its
\* side consumers (sides).  A side consumer is taken to run as far as its
\* pipe lets it: what has been sent to it is what it has received, and its
\* task ends when the nursery is joined.
\*
\* TeeingReceiveStream.__init__
TeeingReceiveStream(hasSource, size) ==
  [made |-> TRUE, source |-> hasSource, closed |-> FALSE, channels |-> <<>>,
   nursery |-> "open", size |-> size]

\* no tee: the stream is used directly
NoTee == [TeeingReceiveStream(FALSE, None) EXCEPT !.made = FALSE]

\* trio.open_memory_channel and the task started on its receiving end
NewSide == [sent |-> <<>>, sender |-> "open", receiver |-> "open", task |-> "running"]

\* reexit is what trio does in this call if the nursery manager, exited
\* before, is exited again: it returns ("ok") or raises ("Error")
World(tee, up, sides, reexit) ==
  [tee |-> tee, up |-> up, sides |-> sides, reexit |-> reexit]

ReExits(tee) == IF tee.nursery = "exited" THEN {"ok", "Error"} ELSE {"ok"}

InList(i, list) == \E j \in 1..Len(list) : list[j] = i

\* `for channel in self._channels: await channel.aclose()` and
\* `...: await trio.aclose_forcefully(channel)`
CloseChannels(sides, channels, how) ==
  [i \in 1..Len(sides) |->
     IF InList(i, channels) THEN [sides[i] EXCEPT !.sender = how] ELSE sides[i]]

\* self._nursery_manager.__aexit__ : every task of the nursery has ended
JoinNursery(sides) == [i \in 1..Len(sides) |-> [sides[i] EXCEPT !.task = "done"]]

\* a loop that hands the value to no side consumer
SendAll_none(sides, channels, value) == [sides |-> sides, tag |-> "ok"]

\* `for channel in self._channels: await channel.send(value)`
RECURSIVE SendAll(_, _, _)
SendAll(sides, channels, value) ==
  IF channels = <<>> THEN [sides |-> sides, tag |-> "ok"]
  ELSE IF sides[Head(channels)].receiver = "closed"
    THEN [sides |-> sides, tag |-> "BrokenResourceError"]
  ELSE SendAll([sides EXCEPT ![Head(channels)].sent = Append(@, value)],
               Tail(channels), value)

\* a try statement that lets an exception of the upstream's aclose() pass
\* without waiting for the nursery
Tee_teardown_unjoined(w, c) ==
  [w |-> World([w.tee EXCEPT !.channels = <<>>, !.source = FALSE,
                             !.nursery = "exited"],
               c.s,
               IF c.tag # "ok" THEN CloseChannels(w.sides, w.tee.channels, "forced")
               ELSE JoinNursery(CloseChannels(w.sides, w.tee.channels, "forced")),
               w.reexit),
   tag |-> IF c.tag # "ok" THEN c.tag
           ELSE IF w.tee.nursery = "exited" THEN w.reexit ELSE "ok"]

\* TeeingReceiveStream.aclose : the try statement, c what the upstream's
\* aclose() did
Tee_teardown(w, c) ==
  [w |-> World([w.tee EXCEPT !.channels = <<>>, !.source = FALSE,
                             !.nursery = "exited"],
               c.s,
               JoinNursery(CloseChannels(w.sides, w.tee.channels, "forced")),
               w.reexit),
   tag |-> IF c.tag # "ok" THEN c.tag
           ELSE IF w.tee.nursery = "exited" THEN w.reexit ELSE "ok"]

Tee_marked(w, _mark_closed) ==
  IF _mark_closed THEN [w EXCEPT !.tee.closed = TRUE] ELSE w

\* TeeingReceiveStream.aclose
Tee_aclose(w, _mark_closed) ==
  IF ~w.tee.source THEN [w |-> Tee_marked(w, _mark_closed), tag |-> "ok"]
  ELSE Tee_teardown(Tee_marked(w, _mark_closed), aclose(w.up, TRUE))

\* _WrapingIterReceiveStreamBase.aclose in a task that is cancelled: the
\* closed mark and the finally clause are as in c, what aclose() does
\* undisturbed; trio.Cancelled is raised from `await self._close_source()`,
\* before the iterator was closed or after, or from the nursery's
\* __aexit__ once aclose() returned
aclose_cancelled(s, c, before) ==
  [s |-> [c.s EXCEPT !.released = IF before THEN s.released ELSE @],
   tag |-> "Cancelled"]

\* TeeingReceiveStream.aclose in a task that is cancelled while the tee
\* has a source: the closing of the side senders is shielded, the
\* upstream's aclose() and the nursery's __aexit__ are not
Tee_aclose_cancelled(w, _mark_closed, before) ==
  Tee_teardown(Tee_marked(w, _mark_closed),
               aclose_cancelled(w.up, aclose(w.up, TRUE), before))

\* TeeingReceiveStream.receive_some : `except BaseException: await
\* self.aclose(); raise`, c what that aclose() did
Tee_raise(c, tag) ==
  [w |-> c.w, tag |-> IF c.tag # "ok" THEN c.tag ELSE tag, data |-> <<>>]

\* TeeingReceiveStream.receive_some : after the sends to the side consumers
Tee_sent(w, sent, value) ==
  IF sent.tag # "ok"
    THEN Tee_raise(Tee_aclose([w EXCEPT !.sides = sent.sides], TRUE), sent.tag)
    ELSE [w |-> [w EXCEPT !.sides = sent.sides], tag |-> "data", data |-> value]

\* TeeingReceiveStream.receive_some : after aclose(_mark_closed=False) at the end
Tee_end(c) ==
  IF c.tag # "ok" THEN Tee_raise(Tee_aclose(c.w, TRUE), c.tag)
  ELSE [w |-> c.w, tag |-> "data", data |-> <<>>]

\* an end of the upstream that leaves the side senders to aclose()
Tee_drained_late(w) == w

\* the side senders closed and the list cleared once the upstream is at its end
Tee_drained(w) ==
  [w EXCEPT !.sides = CloseChannels(w.sides, w.tee.channels, "closed"),
            !.tee.channels = <<>>]

\* the upstream hands over a non-empty chunk
Pulled(r) == r.tag = "data" /\ r.data # <<>>

\* TeeingReceiveStream.receive_some : after `await self._source.receive_some`
Tee_received(w, r) ==
  IF r.tag # "data" THEN Tee_raise(Tee_aclose(w, TRUE), r.tag)
  ELSE IF Len(r.data) > 0 THEN Tee_sent(w, SendAll(w.sides, w.tee.channels, r.data), r.data)
  ELSE Tee_end(Tee_aclose(Tee_drained(w), FALSE))

Tee_upstream(w, r) == Tee_received([w EXCEPT !.up = r.s], r)

\* TeeingReceiveStream.receive_some
Tee_receive_some(w, max_bytes) ==
  IF w.tee.closed THEN [w |-> w, tag |-> "ClosedResourceError", data |-> <<>>]
  ELSE IF ~w.tee.source THEN [w |-> w, tag |-> "data", data |-> <<>>]
  ELSE Tee_upstream(w, receive_some(w.up, max_bytes))

\* ReceiveStream.collect on a tee : the loop
RECURSIVE Tee_collect_loop(_, _, _)
Tee_collect_chunk(r, max_bytes, value) ==
  IF r.tag # "data" THEN [w |-> r.w, tag |-> r.tag, data |-> value]
  ELSE IF Len(r.data) < 1 THEN [w |-> r.w, tag |-> "data", data |-> value]
  ELSE Tee_collect_loop(r.w, max_bytes, value \o r.data)

Tee_collect_loop(w, max_bytes, value) ==
  Tee_collect_chunk(Tee_receive_some(w, max_bytes), max_bytes, value)

\* ReceiveStream.collect on a tee : what leaves `async with self`
Tee_collect_exit(body, exit) ==
  IF exit.tag # "ok" THEN [w |-> exit.w, tag |-> exit.tag, data |-> <<>>]
  ELSE IF body.tag # "data" THEN [w |-> exit.w, tag |-> body.tag, data |-> <<>>]
  ELSE [w |-> exit.w, tag |-> "data", data |-> body.data]

Tee_collect_body(body) == Tee_collect_exit(body, Tee_aclose(body.w, TRUE))

\* ReceiveStream.collect on a tee
Tee_collect(w) == Tee_collect_body(Tee_collect_loop(w, w.tee.size, <<>>))

\* TeeingReceiveStream.source, the setter
Tee_set_source(w, source) ==
  IF w.tee.source \/ w.tee.closed THEN [w |-> w, tag |-> "NotImplementedError"]
  ELSE [w |-> [w EXCEPT !.tee.source = TRUE, !.up = source], tag |-> "ok"]

\* TeeingReceiveStream.start_task_soon ; a nursery that was exited takes no
\* new task
Tee_start_task_soon(w) ==
  IF w.tee.nursery = "exited" THEN [w |-> w, tag |-> "Error"]
  ELSE [w |-> [w EXCEPT !.sides = Append(@, NewSide),
                        !.tee.channels = Append(@, Len(w.sides) + 1)],
        tag |-> "ok"]

\* TeeingReceiveStream.start_task up to `await self._nursery.start(...)` :
\* the pipe is made and the function runs; its sender is in no list yet
Tee_start_task(w) ==
  IF w.tee.nursery = "exited" THEN [w |-> w, tag |-> "Error"]
  ELSE [w |-> [w EXCEPT !.sides = Append(@, NewSide)], tag |-> "ok"]

\* the side consumers whose start_task waits in `self._nursery.start`
Starting(sides, channels) ==
  {i \in 1..Len(sides) : /\ sides[i].sender = "open"
                         /\ sides[i].task = "running"
                         /\ ~InList(i, channels)}

\* TeeingReceiveStream.start_task from `self._channels.append(send_channel)`
Tee_start_task_attach(w, i) == [w EXCEPT !.tee.channels = Append(@, i)]

\* ------------------------------------------------------ object channels
\* _WrapingSyncIterReceiveChannel.__init__ and
\* _WrapingAsyncIterReceiveChannel.__init__ with _WrapingChannelShared: the
\* one handle of the channel and the state it shares
IterChannel(kind, items, count, closeRaises) ==
  [kind |-> kind, source |-> TRUE, iter |-> items, count |-> count,
   refcount |-> 1, closed |-> FALSE, closeRaises |-> closeRaises,
   released |-> FALSE, reads |-> 0]

NoChannel == [IterChannel("sync", <<>>, None, FALSE) EXCEPT !.source = FALSE]

\* receive_channel_from
receive_channel_from(v) ==
  IF v.shape \in {"aiter", "await"} THEN IterChannel("async", v.items, None, v.closeRaises)
  ELSE IF v.shape = "seq" THEN IterChannel("sync", v.items, Len(v.items), v.closeRaises)
  ELSE IterChannel("sync", v.items, None, v.closeRaises)

\* _WrapingSyncIterReceiveChannel._receive
SyncIterChannel_receive(it) ==
  IF it = <<>> THEN [iter |-> <<>>, tag |-> "EndOfChannel", item |-> <<>>]
  ELSE IF Head(it).raises THEN [iter |-> Tail(it), tag |-> "Error", item |-> <<>>]
  ELSE [iter |-> Tail(it), tag |-> "item", item |-> Head(it).data]

\* _WrapingAsyncIterReceiveChannel._receive
AsyncIterChannel_receive(it) ==
  IF it = <<>> THEN [iter |-> <<>>, tag |-> "EndOfChannel", item |-> <<>>]
  ELSE IF Head(it).raises THEN [iter |-> Tail(it), tag |-> "Error", item |-> <<>>]
  ELSE [iter |-> Tail(it), tag |-> "item", item |-> Head(it).data]

Channel__receive(c) ==
  IF c.kind = "sync" THEN SyncIterChannel_receive(c.iter)
  ELSE AsyncIterChannel_receive(c.iter)

Channel_marked(c, _mark_closed) ==
  IF ~c.closed /\ _mark_closed THEN [c EXCEPT !.closed = TRUE] ELSE c

\* _WrapingIterReceiveChannelBase.aclose, from `self._shared.refcount -= 1`
Channel_release(c) ==
  IF c.refcount - 1 # 0 THEN [c |-> [c EXCEPT !.refcount = @ - 1], tag |-> "ok"]
  ELSE [c |-> [c EXCEPT !.refcount = 0, !.released = TRUE, !.source = FALSE],
        tag |-> IF c.closeRaises THEN "Error" ELSE "ok"]

\* _WrapingIterReceiveChannelBase.aclose
Channel_aclose(c, _mark_closed) ==
  IF ~c.source THEN [c |-> Channel_marked(c, _mark_closed), tag |-> "ok"]
  ELSE Channel_release(Channel_marked(c, _mark_closed))

\* _WrapingIterReceiveChannelBase.receive : `except trio.EndOfChannel`, x
\* what aclose(_mark_closed=False) did
Channel_ended(x) ==
  [c |-> x.c, tag |-> IF x.tag # "ok" THEN x.tag ELSE "EndOfChannel", item |-> <<>>]

\* _WrapingIterReceiveChannelBase.receive : after `await self._receive()`
Channel_received(c, r) ==
  IF r.tag = "EndOfChannel" THEN Channel_ended(Channel_aclose(c, FALSE))
  ELSE [c |-> c, tag |-> r.tag, item |-> r.item]

Channel_advanced(c, r) ==
  Channel_received([c EXCEPT !.iter = r.iter, !.reads = @ + 1], r)

\* _WrapingIterReceiveChannelBase.receive
Channel_receive(c) ==
  IF c.closed THEN [c |-> c, tag |-> "ClosedResourceError", item |-> <<>>]
  ELSE IF ~c.source THEN [c |-> c, tag |-> "EndOfChannel", item |-> <<>>]
  ELSE Channel_advanced(c, Channel__receive(c))

\* _WrapingIterReceiveChannelBase.clone : `self.__class__(None,
\* _shared=self._shared)` names a parameter that the __init__ of neither
\* subclass has
Channel_clone(c) ==
  IF c.closed THEN [c |-> c, tag |-> "ClosedResourceError"]
  ELSE [c |-> c, tag |-> "TypeError"]

\* -------------------------------------------------------- tee channels
\* TeeingReceiveChannel.__init__ without _shared : the _TeeingChannelShared
TeeingChannelShared(hasSource) ==
  [made |-> TRUE, source |-> hasSource, refcount |-> 1, channels |-> <<>>,
   nursery |-> "open"]

NoShared == [TeeingChannelShared(FALSE) EXCEPT !.made = FALSE]

\* A tee channel with what it owns: the shared state, per handle its
\* _closed ("unset" where __init__ returned before the assignment), the
\* upstream channel and the side consumers.
ChanWorld(shared, handles, up, sides, reexit) ==
  [shared |-> shared, handles |-> handles, up |-> up, sides |-> sides,
   reexit |-> reexit]

TeeChan_marked(w, h, _mark_closed) ==
  IF _mark_closed THEN [w EXCEPT !.handles[h] = "closed"] ELSE w

\* TeeingReceiveChannel.aclose : the try statement, c what the upstream's
\* aclose() did
TeeChan_teardown(w, c) ==
  [w |-> [w EXCEPT !.shared.refcount = 0, !.shared.channels = <<>>,
                   !.shared.source = FALSE, !.shared.nursery = "exited",
                   !.up = c.c,
                   !.sides = JoinNursery(CloseChannels(w.sides, w.shared.channels,
                                                       "forced"))],
   tag |-> IF c.tag # "ok" THEN c.tag
           ELSE IF w.shared.nursery = "exited" THEN w.reexit ELSE "ok"]

\* TeeingReceiveChannel.aclose, from `self._shared.refcount -= 1`
TeeChan_release(w) ==
  IF w.shared.refcount - 1 # 0
    THEN [w |-> [w EXCEPT !.shared.refcount = @ - 1], tag |-> "ok"]
    ELSE TeeChan_teardown(w, Channel_aclose(w.up, TRUE))

\* TeeingReceiveChannel.aclose
TeeChan_aclose(w, h, _mark_closed) ==
  IF ~w.shared.source THEN [w |-> TeeChan_marked(w, h, _mark_closed), tag |-> "ok"]
  ELSE TeeChan_release(TeeChan_marked(w, h, _mark_closed))

\* _WrapingIterReceiveChannelBase.aclose in a task that is cancelled
Channel_aclose_cancelled(c0, c, before) ==
  [c |-> [c.c EXCEPT !.released = IF before THEN c0.released ELSE @],
   tag |-> "Cancelled"]

\* TeeingReceiveChannel.aclose by the handle that holds the last share, in
\* a task that is cancelled
TeeChan_aclose_cancelled(w, h, _mark_closed, before) ==
  TeeChan_teardown(TeeChan_marked(w, h, _mark_closed),
                   Channel_aclose_cancelled(w.up, Channel_aclose(w.up, TRUE), before))

\* TeeingReceiveChannel.receive : an except clause that calls aclose and
\* raises again, x what that aclose did
TeeChan_raise(x, tag) ==
  [w |-> x.w, tag |-> IF x.tag # "ok" THEN x.tag ELSE tag, item |-> <<>>]

\* TeeingReceiveChannel.receive : after the sends to the side consumers
TeeChan_sent(w, h, sent, item) ==
  IF sent.tag # "ok"
    THEN TeeChan_raise(TeeChan_aclose([w EXCEPT !.sides = sent.sides], h, TRUE),
                       sent.tag)
    ELSE [w |-> [w EXCEPT !.sides = sent.sides], tag |-> "item", item |-> item]

\* the side senders closed and the list cleared at the end of the upstream
TeeChan_drained(w) ==
  [w EXCEPT !.sides = CloseChannels(w.sides, w.shared.channels, "closed"),
            !.shared.channels = <<>>]

\* TeeingReceiveChannel.receive : after `await self._shared.source.receive()`
TeeChan_received(w, h, r) ==
  IF r.tag = "item"
    THEN TeeChan_sent(w, h, SendAll(w.sides, w.shared.channels, r.item), r.item)
  ELSE IF r.tag = "EndOfChannel"
    THEN TeeChan_raise(TeeChan_aclose(TeeChan_drained(w), h, FALSE), "EndOfChannel")
  ELSE [w |-> w, tag |-> r.tag, item |-> <<>>]

TeeChan_upstream(w, h, r) == TeeChan_received([w EXCEPT !.up = r.c], h, r)

\* TeeingReceiveChannel.receive
TeeChan_receive(w, h) ==
  IF w.handles[h] = "unset" THEN [w |-> w, tag |-> "AttributeError", item |-> <<>>]
  ELSE IF w.handles[h] = "closed"
    THEN [w |-> w, tag |-> "ClosedResourceError", item |-> <<>>]
  ELSE IF ~w.shared.source THEN [w |-> w, tag |-> "EndOfChannel", item |-> <<>>]
  ELSE TeeChan_upstream(w, h, Channel_receive(w.up))

\* TeeingReceiveChannel.clone
TeeChan_clone(w, h) ==
  IF w.handles[h] = "unset" THEN [w |-> w, tag |-> "AttributeError"]
  ELSE IF w.handles[h] = "closed" THEN [w |-> w, tag |-> "ClosedResourceError"]
  ELSE [w |-> [w EXCEPT !.handles = Append(@, "unset"), !.shared.refcount = @ + 1],
        tag |-> "ok"]

\* TeeingReceiveChannel.source, the setter ; `or` reads self._closed only
\* when the shared source is None
TeeChan_set_source(w, h, source) ==
  IF w.shared.source THEN [w |-> w, tag |-> "NotImplementedError"]
  ELSE IF w.handles[h] = "unset" THEN [w |-> w, tag |-> "AttributeError"]
  ELSE IF w.handles[h] = "closed" \/ w.shared.refcount > 1
    THEN [w |-> w, tag |-> "NotImplementedError"]
  ELSE [w |-> [w EXCEPT !.shared.source = TRUE, !.up = source], tag |-> "ok"]

\* TeeingReceiveChannel.start_task_soon ; a nursery that was exited takes
\* no new task
TeeChan_start_task_soon(w) ==
  IF w.shared.nursery = "exited" THEN [w |-> w, tag |-> "Error"]
  ELSE [w |-> [w EXCEPT !.sides = Append(@, NewSide),
                        !.shared.channels = Append(@, Len(w.sides) + 1)],
        tag |-> "ok"]

\* ------------------------------------------------------------ datastores
Keys == {"/A/a", "/A/b", "/B/c"}

\* str(key.path): the namespace of a key
KeyPath(key) == IF key = "/B/c" THEN "/B" ELSE "/A"

\* Python dicts as functions whose domain is the set of keys present
EmptyDict == [x \in {} |-> <<>>]

DictSet(d, k, v) == [x \in DOMAIN d \cup {k} |-> IF x = k THEN v ELSE d[x]]

DictDel(d, k) == [x \in DOMAIN d \ {k} |-> d[x]]

\* DictDatastore._collection : creates the namespace when it is missing
_collection(it, key) ==
  IF KeyPath(key) \notin DOMAIN it THEN DictSet(it, KeyPath(key), EmptyDict) ELSE it

\* DictDatastore.get
DictDatastore_get(it, key) ==
  LET it1 == _collection(it, key)
      coll == it1[KeyPath(key)]
  IN IF key \in DOMAIN coll
       THEN [items |-> it1, tag |-> "ok",
             stream |-> receive_stream_from(BytesValue(coll[key]))]
       ELSE [items |-> it1, tag |-> "KeyError", stream |-> NoStream]

\* DictDatastore.get_all
DictDatastore_get_all(it, key) ==
  LET it1 == _collection(it, key)
      coll == it1[KeyPath(key)]
  IN IF key \in DOMAIN coll
       THEN [items |-> it1, tag |-> "ok", data |-> coll[key]]
       ELSE [items |-> it1, tag |-> "KeyError", data |-> <<>>]

\* a DictDatastore._put that replaces the namespace by a fresh dict holding
\* the new key only
DictStore_fresh(it, key, c) ==
  IF c.tag # "data" THEN [items |-> it, tag |-> c.tag]
  ELSE [items |-> DictSet(_collection(it, key), KeyPath(key),
                          DictSet(EmptyDict, key, c.data)),
        tag |-> "ok"]

\* DictDatastore._put : `self._collection(key)[key] = c`, c the collected value
DictStore(it, key, c) ==
  IF c.tag # "data" THEN [items |-> it, tag |-> c.tag]
  ELSE [items |-> DictSet(_collection(it, key), KeyPath(key),
                          DictSet(_collection(it, key)[KeyPath(key)], key, c.data)),
        tag |-> "ok"]

\* a DictDatastore._put that looks the namespace up before it collects the
\* value
DictDatastore__put_eager(it, key, value) ==
  IF collect(value).tag # "data"
    THEN [items |-> _collection(it, key), tag |-> collect(value).tag]
    ELSE DictStore(it, key, collect(value))

\* DictDatastore._put : the value is collected before the namespace is looked up
DictDatastore__put(it, key, value) == DictStore(it, key, collect(value))

\* a DictDatastore.delete that removes nothing and never fails
DictDatastore_delete_quiet(it, key) ==
  [items |-> it,
   tag |-> "ok"]

\* a DictDatastore.delete that leaves the emptied namespace in the map
DictDatastore_delete_keeping(it, key) ==
  IF key \notin DOMAIN _collection(it, key)[KeyPath(key)]
    THEN [items |-> _collection(it, key), tag |-> "KeyError"]
    ELSE [items |-> DictSet(it, KeyPath(key), DictDel(it[KeyPath(key)], key)),
          tag |-> "ok"]

\* DictDatastore.delete
DictDatastore_delete(it, key) ==
  LET it1 == _collection(it, key)
      coll == it1[KeyPath(key)]
      it2 == DictSet(it1, KeyPath(key), DictDel(coll, key))
  IN IF key \notin DOMAIN coll THEN [items |-> it1, tag |-> "KeyError"]
     ELSE IF Cardinality(DOMAIN _collection(it2, key)[KeyPath(key)]) = 0
       THEN [items |-> DictDel(it2, KeyPath(key)), tag |-> "ok"]
     ELSE [items |-> it2, tag |-> "ok"]

\* a DictDatastore.contains that looks up the namespace, not the key
DictDatastore_contains_ns(it, key) ==
  [items |-> _collection(it, key), tag |-> "ok", b |-> KeyPath(key) \in DOMAIN it]

\* DictDatastore.contains
DictDatastore_contains(it, key) ==
  LET it1 == _collection(it, key)
  IN [items |-> it1, tag |-> "ok", b |-> key \in DOMAIN it1[KeyPath(key)]]

\* a DictDatastore.stat that reports the number of keys of the namespace
DictDatastore_stat_keys(it, key) ==
  IF key \in DOMAIN _collection(it, key)[KeyPath(key)]
    THEN [items |-> _collection(it, key), tag |-> "ok",
          size |-> Cardinality(DOMAIN _collection(it, key)[KeyPath(key)])]
    ELSE [items |-> _collection(it, key), tag |-> "KeyError", size |-> None]

\* DictDatastore.stat
DictDatastore_stat(it, key) ==
  LET it1 == _collection(it, key)
      coll == it1[KeyPath(key)]
  IN IF key \in DOMAIN coll
       THEN [items |-> it1, tag |-> "ok", size |-> Len(coll[key])]
       ELSE [items |-> it1, tag |-> "KeyError", size |-> None]

\* NullDatastore.get
NullDatastore_get(it, key) == [items |-> it, tag |-> "KeyError", stream |-> NoStream]

\* NullDatastore._put
NullDatastore__put(it, key, value) == [items |-> it, tag |-> "ok"]

\* NullDatastore.delete
NullDatastore_delete(it, key) == [items |-> it, tag |-> "ok"]

\* A datastore object: a leaf backend under st.depth layers of one Adapter
\* class with the class attributes FORWARD_CONTAINS, FORWARD_GET_ALL and
\* FORWARD_STAT.  The operators below take the layer d a call is made on
\* (0 is the leaf) and dispatch on it as the method call does.
Stack(leaf, depth, fc, fg, fs) ==
  [leaf |-> leaf, depth |-> depth, FORWARD_CONTAINS |-> fc,
   FORWARD_GET_ALL |-> fg, FORWARD_STAT |-> fs]

RECURSIVE get(_, _, _, _)
\* Adapter.get
Adapter_get(st, d, it, key) == get(st, d - 1, it, key)

get(st, d, it, key) ==
  IF d > 0 THEN Adapter_get(st, d, it, key)
  ELSE IF st.leaf = "dict" THEN DictDatastore_get(it, key)
  ELSE NullDatastore_get(it, key)

RECURSIVE _put(_, _, _, _, _)
\* Datastore.put
put(st, d, it, key, value) == _put(st, d, it, key, receive_stream_from(value))

\* an adapter that takes the value and stores nothing
Adapter__put_discard(st, d, it, key, value) == NullDatastore__put(it, key, value)

\* Adapter._put
Adapter__put(st, d, it, key, value) == put(st, d - 1, it, key, StreamValue(value))

_put(st, d, it, key, value) ==
  IF d > 0 THEN Adapter__put(st, d, it, key, value)
  ELSE IF st.leaf = "dict" THEN DictDatastore__put(it, key, value)
  ELSE NullDatastore__put(it, key, value)

RECURSIVE delete(_, _, _, _)
\* Adapter.delete
Adapter_delete(st, d, it, key) == delete(st, d - 1, it, key)

delete(st, d, it, key) ==
  IF d > 0 THEN Adapter_delete(st, d, it, key)
  ELSE IF st.leaf = "dict" THEN DictDatastore_delete(it, key)
  ELSE NullDatastore_delete(it, key)

\* Datastore.contains : the default, with the stream g that get returned
ContainsOf(g) ==
  IF g.tag = "KeyError" THEN [items |-> g.items, tag |-> "ok", b |-> FALSE]
  ELSE IF g.tag # "ok" THEN [items |-> g.items, tag |-> g.tag, b |-> FALSE]
  ELSE [items |-> g.items, tag |-> aclose(g.stream, TRUE).tag, b |-> TRUE]

\* Datastore.contains : the default, by get and close
Datastore_contains(st, d, it, key) == ContainsOf(get(st, d, it, key))

RECURSIVE contains(_, _, _, _)
\* Adapter.contains
Adapter_contains(st, d, it, key) ==
  IF st.FORWARD_CONTAINS THEN contains(st, d - 1, it, key)
  ELSE Datastore_contains(st, d, it, key)

contains(st, d, it, key) ==
  IF d > 0 THEN Adapter_contains(st, d, it, key)
  ELSE IF st.leaf = "dict" THEN DictDatastore_contains(it, key)
  ELSE Datastore_contains(st, d, it, key)

\* Datastore.get_all : what collect gave, c
Collected(it, c) ==
  [items |-> it, tag |-> IF c.tag = "data" THEN "ok" ELSE c.tag, data |-> c.data]

\* Datastore.get_all : the default, with the stream g that get returned
GetAllOf(g) ==
  IF g.tag # "ok" THEN [items |-> g.items, tag |-> g.tag, data |-> <<>>]
  ELSE Collected(g.items, collect(g.stream))

\* Datastore.get_all : the default, by get and collect
Datastore_get_all(st, d, it, key) == GetAllOf(get(st, d, it, key))

RECURSIVE get_all(_, _, _, _)
\* Adapter.get_all
Adapter_get_all(st, d, it, key) ==
  IF st.FORWARD_GET_ALL THEN get_all(st, d - 1, it, key)
  ELSE Datastore_get_all(st, d, it, key)

get_all(st, d, it, key) ==
  IF d > 0 THEN Adapter_get_all(st, d, it, key)
  ELSE IF st.leaf = "dict" THEN DictDatastore_get_all(it, key)
  ELSE Datastore_get_all(st, d, it, key)

\* Datastore.stat : the default, with the stream g that get returned
StatOf(g) ==
  IF g.tag # "ok" THEN [items |-> g.items, tag |-> g.tag, size |-> None]
  ELSE [items |-> g.items, tag |-> aclose(g.stream, TRUE).tag,
        size |-> g.stream.size]

\* Datastore.stat : the default, the size of the stream get returns
Datastore_stat(st, d, it, key) == StatOf(get(st, d, it, key))

RECURSIVE stat(_, _, _, _)
\* Adapter.stat
Adapter_stat(st, d, it, key) ==
  IF st.FORWARD_STAT THEN stat(st, d - 1, it, key)
  ELSE Datastore_stat(st, d, it, key)

stat(st, d, it, key) ==
  IF d > 0 THEN Adapter_stat(st, d, it, key)
  ELSE IF st.leaf = "dict" THEN DictDatastore_stat(it, key)
  ELSE Datastore_stat(st, d, it, key)

\* Datastore.aclose : `pass`; the teardown of layer d has run and is
\* entered in the log
Datastore_aclose(c, d) ==
  [items |-> c.items, tag |-> c.tag, log |-> Append(c.log, <<d, "ok">>)]

\* aclose() of a backend class that overrides it and raises
Failing_aclose(it) == [items |-> it, tag |-> "Error", log |-> <<<<0, "Error">>>>]

\* DictDatastore.aclose
DictDatastore_aclose(it) ==
  Datastore_aclose([items |-> EmptyDict, tag |-> "ok", log |-> <<>>], 0)

\* NullDatastore inherits Datastore.aclose
NullDatastore_aclose(it) ==
  Datastore_aclose([items |-> it, tag |-> "ok", log |-> <<>>], 0)

\* an adapter that gives up when its child could not be closed
Adapter_aclose_abandoned(c, d) == IF c.tag # "ok" THEN c ELSE Datastore_aclose(c, d)

\* Adapter.aclose : `finally: await super().aclose()`, c what
\* `await self.child_datastore.aclose()` did
Adapter_aclose(c, d) == Datastore_aclose(c, d)

\* aclose() on layer d of a datastore object; fails says that the backend
\* is of a class whose aclose() raises
RECURSIVE close(_, _, _, _)
close(st, d, it, fails) ==
  IF d > 0 THEN Adapter_aclose(close(st, d - 1, it, fails), d)
  ELSE IF fails THEN Failing_aclose(it)
  ELSE IF st.leaf = "dict" THEN DictDatastore_aclose(it)
  ELSE NullDatastore_aclose(it)

\* The datastore objects a caller may hold: both backends, bare or under
\* MaxDepth adapters of one class.
Stacks ==
  {Stack(leaf, 0, FALSE, FALSE, FALSE) : leaf \in {"dict", "null"}} \cup
  {Stack(leaf, MaxDepth, fc, fg, fs) :
     leaf \in {"dict", "null"},
     fc \in BOOLEAN, fg \in BOOLEAN, fs \in BOOLEAN}

\* --------------------------------------------------------- datastore_stats
\* the sum of f over the finite set S
RECURSIVE SumOver(_, _)
SumOver(S, f) ==
  IF S = {} THEN 0
  ELSE LET x == CHOOSE y \in S : TRUE IN f[x] + SumOver(S \ {x}, f)

\* DictDatastore.datastore_stats : the bytes held, over all namespaces
DictDatastore_datastore_stats(it) ==
  [tag |-> "exact",
   size |-> SumOver(DOMAIN it,
                    [ns \in DOMAIN it |->
                       SumOver(DOMAIN it[ns],
                               [k \in DOMAIN it[ns] |-> Len(it[ns][k])])])]

\* Datastore.datastore_stats : the default, a DatastoreMetadata() of no size
Datastore_datastore_stats == [tag |-> "unknown", size |-> None]

\* DatastoreMetadata.IGNORE
IGNORE == [tag |-> "IGNORE", size |-> None]

\* The datastore objects of a graph: Adapter(child), with the child's place
\* in the graph for its id(), and the backends; the n-th object, when it is
\* a DictDatastore, holds one value of n bytes.
AdapterOver(child) == [kind |-> "adapter", child |-> child]

Leaf(kind) == [kind |-> kind, child |-> 0]

LeafItems(n) ==
  DictSet(EmptyDict, KeyPath("/A/a"),
          DictSet(EmptyDict, "/A/a", [i \in 1..n |-> 0]))

\* A datastore_stats call in progress on the object at w.at, with the set
\* w.seen passed as _seen: the call returns, or goes on in the child.
\* calls[n] counts the calls an adapter has made on its child n, out is the
\* sequence of what the calls made from outside have returned: the adapter
\* called, the metadata and the object that made it.
StatsReturn(w, n, meta) ==
  [w EXCEPT !.at = 0, !.depth = 0,
            !.out = Append(@, [root |-> w.root, node |-> n, tag |-> meta.tag,
                               size |-> meta.size])]

\* an adapter that calls its child whether it has been seen or not
Adapter_datastore_stats_again(w, n) ==
  [w EXCEPT !.seen = @ \cup {w.graph[n].child},
            !.calls[w.graph[n].child] = @ + 1,
            !.at = w.graph[n].child, !.depth = @ + 1]

\* Adapter.datastore_stats
Adapter_datastore_stats(w, n) ==
  IF w.graph[n].child \in w.seen THEN StatsReturn(w, n, IGNORE)
  ELSE [w EXCEPT !.seen = @ \cup {w.graph[n].child},
                 !.calls[w.graph[n].child] = @ + 1,
                 !.at = w.graph[n].child, !.depth = @ + 1]

datastore_stats(w, n) ==
  IF w.graph[n].kind = "adapter" THEN Adapter_datastore_stats(w, n)
  ELSE IF w.graph[n].kind = "dict"
    THEN StatsReturn(w, n, DictDatastore_datastore_stats(LeafItems(n)))
  ELSE StatsReturn(w, n, Datastore_datastore_stats)

\* ------------------------------------------------------------------ state
VARIABLES
  items,    \* DictDatastore._items
  last,     \* the last datastore call made and how it ended
  strm,     \* the normalized byte stream (the tee's upstream, if there is a tee)
  tee,      \* the TeeingReceiveStream
  sides,    \* the memory channels and tasks of the side consumers
  sret,     \* the last stream call made and how it ended
  hist,     \* what the source was given and what the caller has been handed
  chan,     \* the iterable-backed channel (the tee channel's upstream, if any)
  shared,   \* the _TeeingChannelShared of the tee channel
  handles,  \* per handle of the tee channel, its _closed
  cret,     \* the last channel call made and how it ended
  stats,    \* a graph of datastores and the datastore_stats() calls on it
  tasks     \* the tasks that call receive_some of one tee, and where each is

storeVars == <<items, last, stats>>

streamVars == <<strm, tee, sret, hist, tasks>>

chanVars == <<chan, shared, handles, cret>>

vars ==
  <<items, last, strm, tee, sides, sret, hist, chan, shared, handles, cret,
    stats, tasks>>

\* what the store holds for a key: <<present, value>>
Lookup(it, key) ==
  IF KeyPath(key) \in DOMAIN it /\ key \in DOMAIN it[KeyPath(key)]
    THEN <<TRUE, it[KeyPath(key)][key]>> ELSE <<FALSE, <<>>>>

\* The record of a call: the method, the backend under the object it was
\* made on and the number of adapters over it, the key, for put the bytes
\* handed in, how the call ended, and whether the DictDatastore held the key
\* when the call was made.
Called(op, st, key, arg, tag) ==
  [op |-> op, leaf |-> st.leaf, depth |-> st.depth, key |-> key, arg |-> arg,
   tag |-> tag, had |-> st.leaf = "dict" /\ Lookup(items, key)[1],
   log |-> <<>>]

NoCall ==
  [op |-> "init", leaf |-> "dict", depth |-> 0, key |-> "/A/a", arg |-> <<>>,
   tag |-> "ok", had |-> FALSE, log |-> <<>>]

NoStreamCall == [op |-> "init", arg |-> None, tag |-> "ok", data |-> <<>>]

NoHist ==
  [given |-> <<>>, out |-> <<>>, shut |-> FALSE, eof |-> FALSE, nsrc |-> 0,
   at |-> <<>>]

\* no datastore in use
\* no datastore_stats() call made, on a single DictDatastore
NoStats ==
  [graph |-> <<Leaf("dict")>>, seen |-> {}, root |-> 0, at |-> 0, depth |-> 0,
   calls |-> <<0>>, out |-> <<>>]

IdleStore == items = EmptyDict /\ last = NoCall /\ stats = NoStats

NoChannelCall == [op |-> "init", h |-> 0, tag |-> "ok", item |-> <<>>]

\* no stream in use
\* a task that is in no call, with how its last call ended
IdleTask == [pc |-> "idle", arg |-> None, value |-> <<>>, j |-> 0,
             tag |-> "ok", data |-> <<>>]

NoTasks == [t \in 1..MaxTasks |-> IdleTask]

IdleStream ==
  /\ strm = NoStream /\ tee = NoTee /\ sret = NoStreamCall /\ hist = NoHist
  /\ tasks = NoTasks

\* no channel in use
IdleChan ==
  /\ chan = NoChannel /\ shared = NoShared /\ handles = <<>>
  /\ cret = NoChannelCall

\* DictDatastore.__init__ ; no call made yet
InitStore == IdleStore /\ IdleStream /\ IdleChan /\ sides = <<>>

Buffers == BytesUpTo(MaxValueLen)

ContainsTag(r) == IF r.tag # "ok" THEN r.tag ELSE IF r.b THEN "True" ELSE "False"

\* a call returned r: the store and the record of the call
Returned(op, st, key, arg, r) ==
  /\ items' = r.items
  /\ last' = Called(op, st, key, arg, IF op = "contains" THEN ContainsTag(r) ELSE r.tag)
  /\ UNCHANGED <<stats, streamVars, chanVars, sides>>

Put(st, key, value) ==
  Returned("put", st, key, Concat(value.items),
           put(st, st.depth, items, key, value))

Get(st, key) == Returned("get", st, key, <<>>, get(st, st.depth, items, key))

GetAll(st, key) ==
  Returned("get_all", st, key, <<>>, get_all(st, st.depth, items, key))

Delete(st, key) ==
  Returned("delete", st, key, <<>>, delete(st, st.depth, items, key))

Contains(st, key) ==
  Returned("contains", st, key, <<>>, contains(st, st.depth, items, key))

Stat(st, key) == Returned("stat", st, key, <<>>, stat(st, st.depth, items, key))

\* aclose() returned or raised r; log is the order in which the layers
\* were torn down
Closed(st, r) ==
  /\ items' = r.items
  /\ last' = [Called("aclose", st, "/A/a", <<>>, r.tag) EXCEPT !.log = r.log]
  /\ UNCHANGED <<stats, streamVars, chanVars, sides>>

AClosed(st, fails) == Closed(st, close(st, st.depth, items, fails))

\* A call reads at most one of an adapter's class attributes, so the calls
\* below range over the datastore objects that differ in that attribute.
Plain == {st \in Stacks :
            ~st.FORWARD_CONTAINS /\ ~st.FORWARD_GET_ALL /\ ~st.FORWARD_STAT}

OnlyContains == {st \in Stacks : ~st.FORWARD_GET_ALL /\ ~st.FORWARD_STAT}

OnlyGetAll == {st \in Stacks : ~st.FORWARD_CONTAINS /\ ~st.FORWARD_STAT}

OnlyStat == {st \in Stacks : ~st.FORWARD_CONTAINS /\ ~st.FORWARD_GET_ALL}

NextStore ==
  \/ \E st \in Plain, key \in Keys, b \in Buffers : Put(st, key, BytesValue(b))
  \/ \E st \in Plain, key \in Keys : Get(st, key)
  \/ \E st \in OnlyGetAll, key \in Keys : GetAll(st, key)
  \/ \E st \in Plain, key \in Keys : Delete(st, key)
  \/ \E st \in OnlyContains, key \in Keys : Contains(st, key)
  \/ \E st \in OnlyStat, key \in Keys : Stat(st, key)
  \/ \E st \in Plain, fails \in BOOLEAN : AClosed(st, fails)

SpecStore == InitStore /\ [][NextStore]_vars

\* ----------------------------------------------------------- stats state
\* the graphs of MaxNodes objects: every adapter has one of the objects, it
\* may be itself, as its child_datastore
Graphs ==
  [1..MaxNodes -> {Leaf("dict"), Leaf("null")}
                    \cup {AdapterOver(c) : c \in 1..MaxNodes}]

InitStats ==
  /\ items = EmptyDict /\ last = NoCall
  /\ IdleStream /\ IdleChan /\ sides = <<>>
  /\ \E g \in Graphs :
       stats = [NoStats EXCEPT !.graph = g, !.calls = [n \in 1..MaxNodes |-> 0]]

\* seen = set() once, then adapter.datastore_stats(None, _seen=seen) for one
\* adapter after the other
StatsCall(root) ==
  /\ stats.at = 0
  /\ Len(stats.out) < MaxWalks
  /\ stats.graph[root].kind = "adapter"
  /\ stats' = [stats EXCEPT !.root = root, !.at = root, !.depth = 1]
  /\ UNCHANGED <<items, last, streamVars, chanVars, sides>>

\* the call in progress runs on: it returns or calls the child
StatsStep ==
  /\ stats.at # 0
  /\ stats.depth < MaxFrames
  /\ stats' = datastore_stats(stats, stats.at)
  /\ UNCHANGED <<items, last, streamVars, chanVars, sides>>

NextStats ==
  \/ \E root \in 1..MaxNodes : StatsCall(root)
  \/ StatsStep

SpecStats == InitStats /\ [][NextStats]_vars

\* a call that has been made runs until it returns
FairStats == SpecStats /\ WF_vars(StatsStep)

\* ---------------------------------------------------------- stream state
RaiseMark == 0 - 1

\* what a source's iterator produces: per item the length of the chunk, or
\* RaiseMark for a step that raises
Shapes == SeqsUpTo(RaiseMark..MaxChunkLen, MaxChunks)

\* the items of a shape, the bytes numbered in the order they are produced
RECURSIVE Numbered(_, _)
Numbered(shape, from) ==
  IF shape = <<>> THEN <<>>
  ELSE IF Head(shape) = RaiseMark THEN <<Raise>> \o Numbered(Tail(shape), from)
  ELSE <<Chunk([i \in 1..Head(shape) |-> from + i])>>
         \o Numbered(Tail(shape), from + Head(shape))

\* The values receive_stream_from accepts: a bytes object, a sequence of
\* bytes objects, an awaitable, an iterator and an asynchronous iterator;
\* the last two may raise from a step and from close().
Sources ==
  {Value("bytes", Numbered(<<n>>, 0), FALSE) : n \in 0..MaxChunkLen}
  \cup {Value("await", Numbered(<<n>>, 0), FALSE) : n \in RaiseMark..MaxChunkLen}
  \cup {Value("seq", Numbered(sh, 0), FALSE) : sh \in SeqsUpTo(0..MaxChunkLen, MaxChunks)}
  \cup {Value(form, Numbered(sh, 0), cr) :
          form \in {"iter", "aiter"}, sh \in Shapes, cr \in BOOLEAN}

\* receive_stream_from(value), used directly
InitPlain(v) ==
  /\ strm = receive_stream_from(v)
  /\ tee = NoTee
  /\ hist = [NoHist EXCEPT !.given = v.items, !.nsrc = 1]

\* TeeingReceiveStream(receive_stream_from(value))
InitTee(v) ==
  /\ strm = receive_stream_from(v)
  /\ tee = TeeingReceiveStream(TRUE, receive_stream_from(v).size)
  /\ hist = [NoHist EXCEPT !.nsrc = 1]

\* TeeingReceiveStream(None)
InitTeeDeferred ==
  /\ strm = NoStream
  /\ tee = TeeingReceiveStream(FALSE, None)
  /\ hist = NoHist

InitStream ==
  /\ IdleStore
  /\ IdleChan
  /\ sides = <<>>
  /\ sret = NoStreamCall
  /\ tasks = NoTasks
  /\ \/ \E v \in Sources : InitPlain(v)
     \/ \E v \in Sources : InitTee(v)
     \/ InitTeeDeferred

\* receive_some() and receive_some(max_bytes) with max_bytes >= 1
RecvArgs == {None} \cup 1..MaxRecv

\* what the caller has been handed and told, after a call that ended as r;
\* at[i] is how many bytes the caller had been handed when the sender of
\* side consumer i was attached, None while it is not
Told(op, r) ==
  [hist EXCEPT
     !.out = IF r.tag = "data" THEN @ \o r.data ELSE @,
     !.at = IF r.tag # "ok" THEN @
            ELSE IF op = "start_task_soon" THEN Append(@, Len(hist.out))
            ELSE IF op = "start_task" THEN Append(@, None)
            ELSE @,
     !.shut = @ \/ op \in {"aclose", "collect", "put"},
     !.eof = @ \/ (op = "receive_some" /\ hist.nsrc > 0
                     /\ r.tag = "data" /\ Len(r.data) < 1)]

StreamCall(op, arg, r) == [op |-> op, arg |-> arg, tag |-> r.tag, data |-> r.data]

\* a call on the normalized stream returned r
StreamReturned(op, arg, r) ==
  /\ ~tee.made
  /\ strm' = r.s
  /\ sret' = StreamCall(op, arg, r)
  /\ hist' = Told(op, r)
  /\ UNCHANGED <<tee, sides, tasks>>
  /\ UNCHANGED <<storeVars, chanVars>>

Done(c) == [s |-> c.s, tag |-> c.tag, data |-> <<>>]

ReceiveSome(max_bytes) ==
  StreamReturned("receive_some", max_bytes, receive_some(strm, max_bytes))

AClose == StreamReturned("aclose", None, Done(aclose(strm, TRUE)))

Collect == StreamReturned("collect", None, collect(strm))

\* what get_all(key) returns once put(key, stream) has ended as p, c the
\* stream as the put leaves it
Stored(c, p, key) ==
  IF p.tag # "ok" THEN [s |-> c.s, tag |-> p.tag, data |-> <<>>]
  ELSE [s |-> c.s, tag |-> "data", data |-> DictDatastore_get_all(p.items, key).data]

\* put(key, stream) into a new DictDatastore, then get_all(key)
PutStream(key) ==
  StreamReturned("put", None,
    Stored(collect(strm),
           put(Stack("dict", 0, FALSE, FALSE, FALSE), 0, EmptyDict, key,
               StreamValue(strm)),
           key))

\* Joining the nursery waits for a function that start_task has started
\* and for the task it becomes; a call that joins returns once no start is
\* in progress.
Joined(w) == \A i \in 1..Len(w.sides) :
  w.sides[i].task = "done" => w.sides[i].sender # "open"

\* a call on the tee returned r
TeeReturned(op, arg, r, installed) ==
  /\ tee.made
  /\ Joined(r.w)
  /\ strm' = r.w.up
  /\ tee' = r.w.tee
  /\ sides' = r.w.sides
  /\ sret' = StreamCall(op, arg, r)
  /\ hist' = [Told(op, r) EXCEPT !.nsrc = @ + installed]
  /\ UNCHANGED <<tasks, storeVars, chanVars>>

TeeDone(c) == [w |-> c.w, tag |-> c.tag, data |-> <<>>]

TeeInstalled(c) == TeeReturned("source", None, TeeDone(c), IF c.tag = "ok" THEN 1 ELSE 0)

TeeReceiveSome(max_bytes, reexit) ==
  TeeReturned("receive_some", max_bytes,
              Tee_receive_some(World(tee, strm, sides, reexit), max_bytes), 0)

TeeAClose(reexit) ==
  TeeReturned("aclose", None,
              TeeDone(Tee_aclose(World(tee, strm, sides, reexit), TRUE)), 0)

\* aclose() on a tee with a source, in a task that is cancelled
TeeACloseCancelled(before, reexit) ==
  /\ tee.source
  /\ TeeReturned("aclose", None,
       TeeDone(Tee_aclose_cancelled(World(tee, strm, sides, reexit), TRUE, before)),
       0)

TeeCollect(reexit) ==
  TeeReturned("collect", None, Tee_collect(World(tee, strm, sides, reexit)), 0)

\* the streams receive_stream_from makes of the values it accepts
SourceStreams == {receive_stream_from(v) : v \in Sources}

\* The streams offered to the source setter; an assignment that the setter
\* rejects does not look at the stream offered.
Offered == IF tee.source \/ tee.closed THEN {NoStream} ELSE SourceStreams

\* tee.source = receive_stream_from(value)
TeeSetSource(source) ==
  /\ hist.nsrc < MaxSources
  /\ TeeInstalled(Tee_set_source(World(tee, strm, sides, "ok"), source))

TeeStartTaskSoon ==
  /\ Len(sides) < MaxSides
  /\ TeeReturned("start_task_soon", None,
                 TeeDone(Tee_start_task_soon(World(tee, strm, sides, "ok"))), 0)

\* await tee.start_task(func), as far as the function running
TeeStartTask ==
  /\ Len(sides) < MaxSides
  /\ TeeReturned("start_task", None,
                 TeeDone(Tee_start_task(World(tee, strm, sides, "ok"))), 0)

\* start_task goes on after `await self._nursery.start(...)`
TeeStartTaskAttach(i) ==
  /\ tee.made
  /\ i \in Starting(sides, tee.channels)
  /\ tee' = Tee_start_task_attach(World(tee, strm, sides, "ok"), i).tee
  /\ sret' = [NoStreamCall EXCEPT !.op = "attached"]
  /\ hist' = [hist EXCEPT !.at[i] = Len(hist.out)]
  /\ UNCHANGED <<strm, sides, tasks>>
  /\ UNCHANGED <<storeVars, chanVars>>

\* a side consumer closes the stream it was handed and stops reading
SideClose(i) ==
  /\ tee.made
  /\ sides[i].task = "running" /\ sides[i].receiver = "open"
  /\ sides' = [sides EXCEPT ![i].receiver = "closed"]
  /\ UNCHANGED <<streamVars, storeVars, chanVars>>

NextStream ==
  \/ \E max_bytes \in RecvArgs : ReceiveSome(max_bytes)
  \/ AClose
  \/ Collect
  \/ \E key \in Keys : PutStream(key)
  \/ \E max_bytes \in RecvArgs, reexit \in ReExits(tee) :
       TeeReceiveSome(max_bytes, reexit)
  \/ \E reexit \in ReExits(tee) : TeeAClose(reexit)
  \/ \E reexit \in ReExits(tee) : TeeCollect(reexit)
  \/ \E source \in Offered : TeeSetSource(source)
  \/ TeeStartTaskSoon
  \/ TeeStartTask
  \/ \E i \in 1..Len(sides) : TeeStartTaskAttach(i)
  \/ \E i \in 1..Len(sides) : SideClose(i)

SpecStream == InitStream /\ [][NextStream]_vars

\* ---------------------------------------------------------- failing puts
\* The values whose stream raises while it is drained or when it is closed.
Faulty ==
  {v \in Sources : v.closeRaises \/ \E i \in 1..Len(v.items) : v.items[i].raises}

NextFaulty ==
  \/ NextStore
  \/ \E st \in Plain, key \in Keys, value \in Faulty : Put(st, key, value)

SpecFaulty == InitStore /\ [][NextFaulty]_vars

\* ----------------------------------------------------------- task state
\* Several tasks call receive_some of one TeeingReceiveStream.  A task is
\* suspended in `await self._source.receive_some(max_bytes)` when the
\* upstream awaits its iterator, and in every `await channel.send(value)`.

\* TeeingReceiveStream(receive_stream_from(value)) with k side consumers
\* started by start_task_soon
InitTasks ==
  /\ IdleStore
  /\ IdleChan
  /\ sret = NoStreamCall
  /\ tasks = NoTasks
  /\ \E v \in Sources, k \in 0..MaxSides :
       /\ strm = receive_stream_from(v)
       /\ tee = [TeeingReceiveStream(TRUE, receive_stream_from(v).size)
                   EXCEPT !.channels = [i \in 1..k |-> i]]
       /\ sides = [i \in 1..k |-> NewSide]
       /\ hist = [NoHist EXCEPT !.nsrc = 1, !.at = [i \in 1..k |-> 0]]

\* the call of task t returned or raised r
TaskEnded(t, r) ==
  /\ Joined(r.w)
  /\ strm' = r.w.up
  /\ tee' = r.w.tee
  /\ sides' = r.w.sides
  /\ tasks' = [tasks EXCEPT ![t] = [IdleTask EXCEPT !.tag = r.tag, !.data = r.data]]
  /\ hist' = Told("receive_some", r)
  /\ UNCHANGED <<sret, storeVars, chanVars>>

\* `value = await self._source.receive_some(max_bytes)` gave r to task t
TaskPulled(t, max_bytes, r, reexit) ==
  IF Pulled(r)
    THEN /\ strm' = r.s
         /\ tasks' = [tasks EXCEPT ![t] = [IdleTask EXCEPT !.pc = "sending",
                         !.arg = max_bytes, !.value = r.data, !.j = 1]]
         /\ UNCHANGED <<tee, sides, sret, hist, storeVars, chanVars>>
    ELSE TaskEnded(t, Tee_upstream(World(tee, strm, sides, reexit), r))

\* task t calls receive_some(max_bytes)
TaskCall(t, max_bytes, reexit) ==
  /\ tee.made
  /\ tasks[t].pc = "idle"
  /\ IF tee.closed \/ ~tee.source
       THEN TaskEnded(t, Tee_receive_some(World(tee, strm, sides, reexit), max_bytes))
     ELSE IF strm.kind = "sync"
       THEN TaskPulled(t, max_bytes, receive_some(strm, max_bytes), reexit)
     ELSE /\ tasks' = [tasks EXCEPT ![t] = [IdleTask EXCEPT !.pc = "reading",
                                                           !.arg = max_bytes]]
          /\ UNCHANGED <<strm, tee, sides, sret, hist, storeVars, chanVars>>

\* the upstream's read that task t waits for ends
TaskRead(t, reexit) ==
  /\ tasks[t].pc = "reading"
  /\ TaskPulled(t, tasks[t].arg, receive_some(strm, tasks[t].arg), reexit)

\* what an iterator does whose __anext__ is awaited by two tasks at once is
\* not defined; an asynchronous generator raises RuntimeError
TaskReadRefused(t, reexit) ==
  /\ tasks[t].pc = "reading"
  /\ \E u \in 1..MaxTasks : u # t /\ tasks[u].pc = "reading"
  /\ TaskEnded(t, Tee_upstream(World(tee, strm, sides, reexit),
                               [s |-> strm, tag |-> "Error", data |-> <<>>]))

\* a loop that returns the value at once and sends it to no side consumer
TaskSend_unsent(t, reexit) ==
  /\ tasks[t].pc = "sending"
  /\ TaskEnded(t, [w |-> World(tee, strm, sides, reexit), tag |-> "data",
                   data |-> tasks[t].value])

\* task t goes on in `for channel in self._channels: await
\* channel.send(value)`, or leaves the loop and returns the value
TaskSend(t, reexit) ==
  /\ tasks[t].pc = "sending"
  /\ IF tasks[t].j > Len(tee.channels)
       THEN TaskEnded(t, [w |-> World(tee, strm, sides, reexit), tag |-> "data",
                          data |-> tasks[t].value])
     ELSE IF sides[tee.channels[tasks[t].j]].receiver = "closed"
       THEN TaskEnded(t, Tee_sent(World(tee, strm, sides, reexit),
                                  [sides |-> sides, tag |-> "BrokenResourceError"],
                                  tasks[t].value))
     ELSE /\ sides' = [sides EXCEPT ![tee.channels[tasks[t].j]].sent =
                                      Append(@, tasks[t].value)]
          /\ tasks' = [tasks EXCEPT ![t].j = @ + 1]
          /\ UNCHANGED <<strm, tee, sret, hist, storeVars, chanVars>>

NextTasks ==
  \/ \E t \in 1..MaxTasks, max_bytes \in RecvArgs, reexit \in ReExits(tee) :
       TaskCall(t, max_bytes, reexit)
  \/ \E t \in 1..MaxTasks, reexit \in ReExits(tee) : TaskRead(t, reexit)
  \/ \E t \in 1..MaxTasks, reexit \in ReExits(tee) : TaskReadRefused(t, reexit)
  \/ \E t \in 1..MaxTasks, reexit \in ReExits(tee) : TaskSend(t, reexit)
  \/ \E i \in 1..Len(sides) : SideClose(i)

SpecTasks == InitTasks /\ [][NextTasks]_vars

\* one task is the only caller of receive_some
NextReader ==
  \/ \E max_bytes \in RecvArgs, reexit \in ReExits(tee) : TaskCall(1, max_bytes, reexit)
  \/ \E reexit \in ReExits(tee) : TaskRead(1, reexit)
  \/ \E reexit \in ReExits(tee) : TaskSend(1, reexit)
  \/ \E i \in 1..Len(sides) : SideClose(i)

SpecReader == InitTasks /\ [][NextReader]_vars

\* --------------------------------------------------------- channel state
\* The values receive_channel_from accepts, here with bytes objects as the
\* items: a sequence, an awaitable, an iterator and an asynchronous iterator.
ChannelSources == {v \in Sources : v.shape # "bytes"}

\* receive_channel_from(value), used directly
InitChannel(v) ==
  /\ chan = receive_channel_from(v)
  /\ shared = NoShared
  /\ handles = <<>>

\* TeeingReceiveChannel(receive_channel_from(value))
InitTeeChannel(v) ==
  /\ chan = receive_channel_from(v)
  /\ shared = TeeingChannelShared(TRUE)
  /\ handles = <<"open">>

\* TeeingReceiveChannel(None)
InitTeeChannelDeferred ==
  /\ chan = NoChannel
  /\ shared = TeeingChannelShared(FALSE)
  /\ handles = <<"open">>

InitChan ==
  /\ IdleStore
  /\ IdleStream
  /\ sides = <<>>
  /\ cret = NoChannelCall
  /\ \/ \E v \in ChannelSources : InitChannel(v)
     \/ \E v \in ChannelSources : InitTeeChannel(v)
     \/ InitTeeChannelDeferred

ChannelCall(op, h, r) == [op |-> op, h |-> h, tag |-> r.tag, item |-> r.item]

NoItem(x) == [c |-> x.c, tag |-> x.tag, item |-> <<>>]

\* a call on the iterable-backed channel returned r
ChannelReturned(op, r) ==
  /\ ~shared.made
  /\ chan' = r.c
  /\ cret' = ChannelCall(op, 0, r)
  /\ UNCHANGED <<shared, handles, sides>>
  /\ UNCHANGED <<storeVars, streamVars>>

ChanReceive == ChannelReturned("receive", Channel_receive(chan))

ChanClone == ChannelReturned("clone", NoItem(Channel_clone(chan)))

ChanAClose == ChannelReturned("aclose", NoItem(Channel_aclose(chan, TRUE)))

\* a call on handle h of the tee channel returned r
TeeChanReturned(op, h, r) ==
  /\ shared.made
  /\ r.w.shared.refcount >= 0 - MaxOverdrawn
  /\ chan' = r.w.up
  /\ shared' = r.w.shared
  /\ handles' = r.w.handles
  /\ sides' = r.w.sides
  /\ cret' = ChannelCall(op, h, r)
  /\ UNCHANGED <<storeVars, streamVars>>

TeeNoItem(x) == [w |-> x.w, tag |-> x.tag, item |-> <<>>]

ChanReExits == IF shared.nursery = "exited" THEN {"ok", "Error"} ELSE {"ok"}

TeeChanReceive(h, reexit) ==
  TeeChanReturned("receive", h,
    TeeChan_receive(ChanWorld(shared, handles, chan, sides, reexit), h))

TeeChanClone(h) ==
  /\ Len(handles) < MaxHandles
  /\ TeeChanReturned("clone", h,
       TeeNoItem(TeeChan_clone(ChanWorld(shared, handles, chan, sides, "ok"), h)))

TeeChanAClose(h, reexit) ==
  TeeChanReturned("aclose", h,
    TeeNoItem(TeeChan_aclose(ChanWorld(shared, handles, chan, sides, reexit), h, TRUE)))

\* aclose() on the handle whose share is the last one, in a task that is
\* cancelled; an aclose() that leaves a share to others has no suspension
\* point
TeeChanACloseCancelled(h, before, reexit) ==
  /\ shared.source /\ shared.refcount = 1
  /\ TeeChanReturned("aclose", h,
       TeeNoItem(TeeChan_aclose_cancelled(
                   ChanWorld(shared, handles, chan, sides, reexit), h, TRUE, before)))

\* the channels offered to the source setter of handle h, each made of an
\* awaitable; an assignment that the setter rejects does not look at the
\* channel offered
OfferedTo(h) ==
  IF shared.source \/ handles[h] # "open" \/ shared.refcount > 1
    THEN {NoChannel}
    ELSE {receive_channel_from(v) : v \in {x \in ChannelSources : x.shape = "await"}}

\* tee.source = receive_channel_from(value), on handle h
TeeChanSetSource(h, source) ==
  TeeChanReturned("source", h,
    TeeNoItem(TeeChan_set_source(ChanWorld(shared, handles, chan, sides, "ok"),
                                 h, source)))

TeeChanStartTaskSoon(h) ==
  /\ Len(sides) < MaxSides
  /\ TeeChanReturned("start_task_soon", h,
       TeeNoItem(TeeChan_start_task_soon(
                   ChanWorld(shared, handles, chan, sides, "ok"))))

\* a side consumer closes the channel it was handed and stops reading
ChanSideClose(i) ==
  /\ shared.made
  /\ sides[i].task = "running" /\ sides[i].receiver = "open"
  /\ sides' = [sides EXCEPT ![i].receiver = "closed"]
  /\ cret' = [NoChannelCall EXCEPT !.op = "side"]
  /\ UNCHANGED <<chan, shared, handles>>
  /\ UNCHANGED <<storeVars, streamVars>>

NextChan ==
  \/ ChanReceive
  \/ ChanClone
  \/ ChanAClose
  \/ \E h \in 1..Len(handles), reexit \in ChanReExits : TeeChanReceive(h, reexit)
  \/ \E h \in 1..Len(handles) : TeeChanClone(h)
  \/ \E h \in 1..Len(handles), reexit \in ChanReExits : TeeChanAClose(h, reexit)
  \/ \E h \in 1..Len(handles) : TeeChanStartTaskSoon(h)
  \/ \E h \in 1..Len(handles) : \E source \in OfferedTo(h) :
       TeeChanSetSource(h, source)
  \/ \E i \in 1..Len(sides) : ChanSideClose(i)

SpecChan == InitChan /\ [][NextChan]_vars

\* ----------------------------------------------------- cancelled closes
\* A tee of either kind that has its source, used by a caller whose task
\* may be cancelled while it closes the tee.
InitCancel ==
  \/ InitTasks
  \/ /\ IdleStore
     /\ IdleStream
     /\ sides = <<>>
     /\ cret = NoChannelCall
     /\ \E v \in ChannelSources : InitTeeChannel(v)

NextCancel ==
  \/ \E max_bytes \in RecvArgs, reexit \in ReExits(tee) :
       TeeReceiveSome(max_bytes, reexit)
  \/ \E reexit \in ReExits(tee) : TeeAClose(reexit)
  \/ \E before \in BOOLEAN, reexit \in ReExits(tee) :
       TeeACloseCancelled(before, reexit)
  \/ TeeStartTaskSoon
  \/ TeeStartTask
  \/ \E i \in 1..Len(sides) : TeeStartTaskAttach(i)
  \/ \E i \in 1..Len(sides) : SideClose(i)
  \/ \E h \in 1..Len(handles), reexit \in ChanReExits : TeeChanReceive(h, reexit)
  \/ \E h \in 1..Len(handles) : TeeChanClone(h)
  \/ \E h \in 1..Len(handles), reexit \in ChanReExits : TeeChanAClose(h, reexit)
  \/ \E h \in 1..Len(handles), before \in BOOLEAN, reexit \in ChanReExits :
       TeeChanACloseCancelled(h, before, reexit)
  \/ \E h \in 1..Len(handles) : TeeChanStartTaskSoon(h)
  \/ \E i \in 1..Len(sides) : ChanSideClose(i)

SpecCancel == InitCancel /\ [][NextCancel]_vars

\* ------------------------------------------------- claims on datastores
\* C1: on a DictDatastore (bare or behind default adapters), in every
\* reachable state, when put(key, b) with a byte buffer b completes,
\* get_all(key) returns exactly b (also when key held another value before)
\* and every other key holds what it held before.
C1_RoundTrip ==
  [][(last'.op = "put" /\ last'.leaf = "dict") =>
       /\ last'.tag = "ok"
       /\ DictDatastore_get_all(items', last'.key).tag = "ok"
       /\ DictDatastore_get_all(items', last'.key).data = last'.arg
       /\ \A other \in Keys \ {last'.key} :
            Lookup(items', other) = Lookup(items, other)]_vars

\* a put has replaced the value of a key while another key is stored
C1_Witness ==
  /\ last.op = "put" /\ last.leaf = "dict" /\ last.had /\ last.tag = "ok"
  /\ Len(Lookup(items, last.key)[2]) > 0
  /\ \E other \in Keys \ {last.key} : Lookup(items, other)[1]

\* C2: on a DictDatastore, delete(key) of a stored key succeeds, and after
\* it get(key) fails with KeyError and contains(key) is false; delete(key)
\* of an absent key fails with KeyError.
C2_NotFoundAfterDelete ==
  (last.op = "delete" /\ last.leaf = "dict") =>
    IF last.had
      THEN /\ last.tag = "ok"
           /\ DictDatastore_get(items, last.key).tag = "KeyError"
           /\ ~DictDatastore_contains(items, last.key).b
      ELSE last.tag = "KeyError"

\* a stored key has been deleted, and its namespace still holds another key
C2_Witness ==
  /\ last.op = "delete" /\ last.leaf = "dict" /\ last.had /\ last.tag = "ok"
  /\ ~Lookup(items, last.key)[1]
  /\ \E other \in Keys \ {last.key} : Lookup(items, other)[1]

\* C3: in every reachable state, for every datastore object (DictDatastore,
\* NullDatastore, either behind adapters with FORWARD_CONTAINS false or
\* true) and every key, contains(key) returns true exactly when get(key)
\* does not fail with KeyError.
C3_ContainsFidelity ==
  \A st \in Stacks, key \in Keys :
    /\ contains(st, st.depth, items, key).tag = "ok"
    /\ contains(st, st.depth, items, key).b
         = (get(st, st.depth, items, key).tag # "KeyError")

\* contains has returned true for a key while another key of its namespace
\* is absent
C3_Witness ==
  /\ last.op = "contains" /\ last.tag = "True"
  /\ \E other \in Keys :
       /\ KeyPath(other) = KeyPath(last.key)
       /\ ~Lookup(items, other)[1]

\* C4: in every reachable state, for every datastore object and every
\* stored key, when stat(key) returns a size that is not None, the size is
\* the length of what get_all(key) returns; this covers DictDatastore.stat
\* and the default stat behind an adapter with FORWARD_STAT false.
C4_StatSize ==
  \A st \in Stacks, key \in Keys :
    (stat(st, st.depth, items, key).tag = "ok"
       /\ stat(st, st.depth, items, key).size # None)
    => /\ get_all(st, st.depth, items, key).tag = "ok"
       /\ stat(st, st.depth, items, key).size
            = Len(get_all(st, st.depth, items, key).data)

\* stat has succeeded on a key that holds a non-empty value
C4_Witness ==
  /\ last.op = "stat" /\ last.tag = "ok"
  /\ Len(Lookup(items, last.key)[2]) > 0

\* ---------------------------------------------------- claims on streams
IsPrefix(a, b) == Len(a) <= Len(b) /\ SubSeq(b, 1, Len(a)) = a

\* C5: on a normalized stream, whatever empty chunks the source produces,
\* the caller is handed the bytes of the non-empty chunks in source order;
\* once collect(), or put into a DictDatastore followed by get_all, has
\* returned, it has been handed all of them; and receive_some returns the
\* empty end signal only when the source is exhausted and all of its bytes
\* have been handed over.
C5_EmptyChunksTransparent ==
  ~tee.made =>
    /\ IsPrefix(hist.out, Concat(hist.given))
    /\ (sret.op \in {"collect", "put"} /\ sret.tag = "data")
         => hist.out = Concat(hist.given)
    /\ (sret.op = "receive_some" /\ sret.tag = "data" /\ Len(sret.data) < 1)
         => (strm.iter = <<>> /\ hist.out = Concat(hist.given))

\* the end signal has been returned for a source that produced an empty
\* chunk before a non-empty one
C5_Witness ==
  /\ ~tee.made
  /\ sret.op = "receive_some" /\ sret.tag = "data" /\ Len(sret.data) < 1
  /\ Len(hist.out) > 0
  /\ \E i \in 1..Len(hist.given) : \E j \in 1..Len(hist.given) :
       /\ i < j
       /\ ~hist.given[i].raises /\ Len(hist.given[i].data) < 1
       /\ Len(hist.given[j].data) > 0

\* C6: when receive_some(max_bytes) is called with a max_bytes that is not
\* None and returns data, it returns at most max_bytes bytes.
C6_AtMostMaxBytes ==
  (sret.op = "receive_some" /\ sret.arg # None /\ sret.tag = "data")
    => Len(sret.data) <= sret.arg

\* C7: once aclose() has been called on a normalized stream or a tee
\* stream, or collect() has returned, every receive_some fails with
\* ClosedResourceError, whatever has been called in between.
C7_ClosedStaysClosed ==
  hist.shut =>
    /\ sret.op = "receive_some" => sret.tag = "ClosedResourceError"
    /\ IF tee.made
         THEN Tee_receive_some(World(tee, strm, sides, "ok"), None).tag
                = "ClosedResourceError"
         ELSE receive_some(strm, None).tag = "ClosedResourceError"

\* receive_some has failed on a closed tee whose upstream had items left
C7_Witness ==
  /\ hist.shut /\ tee.made /\ strm.iter # <<>>
  /\ sret.op = "receive_some" /\ sret.tag = "ClosedResourceError"

\* C8: once receive_some has returned the empty end signal on a normalized
\* stream or a tee stream that had a source, and until aclose() or
\* collect() is called, every receive_some returns the empty end signal
\* again, without an error and without a further read of the source.
C8_EndOfStreamSticky ==
  [][(hist.eof /\ ~hist.shut /\ sret'.op = "receive_some")
       => /\ sret'.tag = "data"
          /\ Len(sret'.data) < 1
          /\ strm'.reads = strm.reads]_vars

\* C9: when collect() has ended, by returning or by raising, the stream
\* (normalized or tee) is closed: its source has been released and
\* receive_some fails with ClosedResourceError.
C9_CollectCloses ==
  sret.op \in {"collect", "put"} =>
    IF tee.made
      THEN /\ Tee_receive_some(World(tee, strm, sides, "ok"), None).tag
                = "ClosedResourceError"
           /\ ~tee.source
           /\ hist.nsrc > 0 => (strm.released /\ ~strm.source)
      ELSE /\ receive_some(strm, None).tag = "ClosedResourceError"
           /\ strm.released /\ ~strm.source

\* collect() has raised what the source raised, after handing over data
C9_Witness ==
  /\ sret.op = "collect" /\ sret.tag = "Error"
  /\ strm.released /\ strm.closed
  /\ \E i \in 1..Len(hist.given) : hist.given[i].raises

\* --------------------------------------------------- claims on channels
\* C10: aclose() on a handle of a channel that has been closed already
\* raises no error and changes nothing that the handles of the channel
\* share: the reference count, the source and the nursery stay as they are
\* and the upstream channel is not closed.
C10_CloseIdempotent ==
  [][(/\ cret'.op = "aclose"
      /\ IF shared.made THEN handles[cret'.h] = "closed" ELSE chan.closed)
       => /\ cret'.tag = "ok"
          /\ shared' = shared
          /\ chan' = chan]_vars

\* no side consumer that is still attached has closed its receiving end
NoneBroken(all, channels) ==
  \A j \in 1..Len(channels) : all[channels[j]].receiver = "open"

\* C11: receive() on any handle of a tee channel that has not been closed,
\* a clone as much as the handle that was constructed, delivers the next
\* item of the shared upstream when there is one (and no side consumer is
\* broken), and takes it from the upstream.
C11_CloneReceives ==
  [][(/\ cret'.op = "receive"
      /\ shared.made /\ shared.source
      /\ handles[cret'.h] # "closed"
      /\ chan.iter # <<>> /\ ~Head(chan.iter).raises
      /\ NoneBroken(sides, shared.channels))
       => /\ cret'.tag = "item"
          /\ cret'.item = Head(chan.iter).data
          /\ chan'.iter = Tail(chan.iter)]_vars

\* the bytes of a sequence of chunks, in order
RECURSIVE Flat(_)
Flat(chunks) ==
  IF chunks = <<>> THEN <<>> ELSE Head(chunks) \o Flat(Tail(chunks))

\* the caller has read the tee to its end
Drained ==
  \/ hist.eof
  \/ sret.op = "collect" /\ sret.tag = "data"

\* C12: once the caller has read a tee to the end of its source, every side
\* consumer that was attached before the caller was handed anything, and
\* that has kept its pipe open, has been sent non-empty chunks whose
\* concatenation is exactly the bytes the caller was handed.
C12_Multicast ==
  (tee.made /\ hist.nsrc = 1 /\ Drained)
    => \A i \in 1..Len(sides) :
         (hist.at[i] = 0 /\ sides[i].receiver = "open")
           => /\ Flat(sides[i].sent) = hist.out
              /\ \A j \in 1..Len(sides[i].sent) : sides[i].sent[j] # <<>>

C12_Witness ==
  /\ tee.made /\ hist.nsrc = 1 /\ hist.eof
  /\ \E i \in 1..Len(sides) :
       /\ hist.at[i] = 0 /\ sides[i].receiver = "open"
       /\ Len(sides[i].sent) > 1
       /\ Flat(sides[i].sent) = hist.out

\* C13: while a start_task of the tee is between starting the side
\* consumer's function and attaching its sender, no call hands the caller
\* of the tee any bytes.
C13_AttachAtomic ==
  [][(tee.made /\ Starting(sides, tee.channels) # {})
       => hist'.out = hist.out]_vars

C15_BrokenSide ==
  [][(/\ tee.made /\ tee.source /\ ~tee.closed
      /\ sret'.op = "receive_some" /\ strm' # strm
      /\ ~NoneBroken(sides, tee.channels)
      /\ Pulled(receive_some(strm, sret'.arg)))
       => /\ sret'.tag = "BrokenResourceError"
          /\ tee'.closed
          /\ strm'.closed
          /\ \A i \in 1..Len(sides') : sides'[i].sender # "open"]_vars

\* C16: once aclose() of a tee has returned, every side consumer's sender
\* has been closed and every side consumer's task has ended.
C16_NoneOutlives ==
  (tee.made /\ sret.op = "aclose" /\ sret.tag = "ok")
    => \A i \in 1..Len(sides) :
         sides[i].sender # "open" /\ sides[i].task = "done"

\* C17: on a NullDatastore get and delete end with KeyError, put ends
\* without error and stores nothing, and contains returns False.
C17_NullDatastore ==
  [][last'.leaf = "null"
       => /\ last'.op \in {"get", "delete"} => last'.tag = "KeyError"
          /\ last'.op = "put" => (last'.tag = "ok" /\ items' = items)
          /\ last'.op = "contains" => last'.tag = "False"]_vars

\* a DictDatastore under d adapters that keep the attributes of the class
Layered(d) == Stack("dict", d, FALSE, FALSE, FALSE)

\* every call on key through d adapters ends as the call on the
\* DictDatastore itself does, with the same result and the same store
SameCalls(d, key) ==
  /\ get_all(Layered(d), d, items, key) = get_all(Layered(0), 0, items, key)
  /\ contains(Layered(d), d, items, key) = contains(Layered(0), 0, items, key)
  /\ stat(Layered(d), d, items, key) = stat(Layered(0), 0, items, key)
  /\ delete(Layered(d), d, items, key) = delete(Layered(0), 0, items, key)
  /\ \A b \in Buffers :
       put(Layered(d), d, items, key, BytesValue(b))
         = put(Layered(0), 0, items, key, BytesValue(b))

\* C18: in every state a sequence of calls can lead to, each of put, delete,
\* get_all, contains and stat made through any number of adapters with the
\* default attributes returns what the same call on the DictDatastore under
\* them returns, the same error included, and leaves the same store.
C18_PassThrough ==
  \A d \in 1..MaxDepth : \A key \in Keys : SameCalls(d, key)

C18_Witness ==
  /\ last.leaf = "dict" /\ last.depth > 0
  /\ last.op = "put" /\ last.tag = "ok" /\ last.had
  /\ Lookup(items, last.key) = <<TRUE, last.arg>>
  /\ last.arg # <<>>

\* the calls from outside that returned the metadata of the object n
CountedFrom(n) == {i \in 1..Len(stats.out) : stats.out[i].node = n
                                            /\ stats.out[i].tag # "IGNORE"}

\* the object n is the child of r, or the child of its child, and so on
\* for at most k adapters
RECURSIVE Leads(_, _, _)
Leads(r, n, k) ==
  /\ k > 0
  /\ stats.graph[r].kind = "adapter"
  /\ \/ stats.graph[r].child = n
     \/ Leads(stats.graph[r].child, n, k - 1)

\* C19: with one set passed as _seen to every call, no adapter calls
\* datastore_stats of a child more than once; the metadata of a backend is
\* returned at most once, and exactly once when the calls on the adapters
\* that lead to it have returned; an adapter whose child is in the set
\* returns IGNORE without calling it; and every call made returns, also on
\* a graph in which an adapter is its own child or descendant.
C19_CycleSafe ==
  /\ [](\A n \in 1..Len(stats.graph) :
          /\ stats.calls[n] <= 1
          /\ stats.graph[n].kind # "adapter"
               => /\ Cardinality(CountedFrom(n)) <= 1
                  /\ (\E i \in 1..Len(stats.out) :
                        Leads(stats.out[i].root, n, Len(stats.graph)))
                       => Cardinality(CountedFrom(n)) = 1)
  /\ [][(/\ stats.at # 0 /\ stats'.at # stats.at
          /\ stats.graph[stats.at].kind = "adapter"
          /\ stats.graph[stats.at].child \in stats.seen)
           => /\ stats'.at = 0
              /\ stats'.calls = stats.calls
              /\ stats'.out[Len(stats'.out)].tag = "IGNORE"]_vars
  /\ (stats.at # 0) ~> (stats.at = 0)

C19_Witness ==
  /\ stats.at = 0
  /\ \E n \in 1..Len(stats.graph) : \E i, j \in 1..Len(stats.out) :
       /\ stats.graph[n].kind = "dict"
       /\ i < j /\ stats.out[i].root # stats.out[j].root
       /\ stats.graph[stats.out[i].root].child = n
       /\ stats.graph[stats.out[j].root].child = n
       /\ stats.out[i].node = n /\ stats.out[i].size = n
       /\ stats.out[j].tag = "IGNORE"
       /\ Cardinality(CountedFrom(n)) = 1

\* C20: when receive_some(max_bytes) of an open normalized stream with
\* nothing buffered takes from its source a chunk longer than max_bytes, it
\* returns the first max_bytes bytes of the chunk and keeps the rest of it,
\* in order, in the buffer that the next calls are served from.
C20_OverSupplyBuffered ==
  [][(/\ ~tee.made /\ strm.source /\ ~strm.closed /\ ~strm.memview
      /\ sret'.op = "receive_some" /\ sret'.arg # None
      /\ strm'.reads # strm.reads
      /\ strm.iter # <<>> /\ ~Head(strm.iter).raises
      /\ Len(Head(strm.iter).data) > sret'.arg)
       => /\ sret'.tag = "data"
          /\ sret'.data = Slice(Head(strm.iter).data, 0, sret'.arg)
          /\ strm'.memview
          /\ Slice(strm'.buffer, strm'.offset, Len(strm'.buffer))
               = Slice(Head(strm.iter).data, sret'.arg,
                       Len(Head(strm.iter).data))]_vars

\* C21: of the tasks that call receive_some of one tee at most one is in
\* the read of the upstream, and at most one has pulled a chunk that it has
\* not yet sent to every side consumer.
C21_Mutex ==
  /\ Cardinality({t \in 1..MaxTasks : tasks[t].pc = "reading"}) <= 1
  /\ Cardinality({t \in 1..MaxTasks : tasks[t].pc = "sending"}) <= 1

\* C22: an assignment to the source of a tee is accepted only when no source
\* has been set on the tee before, at its construction included, and the tee
\* has neither been closed nor reached the end of a source.
C22_SourceOnce ==
  [][hist'.nsrc > hist.nsrc
       => (hist.nsrc = 0 /\ ~hist.shut /\ ~hist.eof)]_vars

\* C23: when receive() on an open handle of a tee channel that has its
\* source reads the upstream and ends with an error that is not the end of
\* the channel, the handle is closed, no side sender is open and the
\* upstream is closed.
C23_ClosedOnError ==
  [][(/\ shared.made /\ shared.source
      /\ cret'.op = "receive" /\ chan' # chan
      /\ handles[cret'.h] = "open"
      /\ cret'.tag \notin {"item", "EndOfChannel"})
       => /\ handles'[cret'.h] = "closed"
          /\ \A i \in 1..Len(sides') : sides'[i].sender # "open"
          /\ chan'.closed]_vars

\* C24: on a tee that was made without a source and has had none set,
\* receive_some fails with ClosedResourceError, and aclose leaves the tee
\* closed.
C24_FreshTee ==
  (tee.made /\ hist.nsrc = 0)
    => /\ sret.op = "receive_some" => sret.tag = "ClosedResourceError"
       /\ sret.op = "aclose" => tee.closed

\* C25: whenever the shared refcount of a channel is 0, the channel's source
\* has been closed and the shared reference to it is cleared; and a step
\* that closes the source leaves the refcount at 0.
C25_ZeroMeansReleased ==
  /\ [](IF shared.made
          THEN shared.refcount = 0 => (~shared.source /\ chan.closed)
          ELSE chan.refcount = 0 => (~chan.source /\ chan.released))
  /\ [][IF shared.made
          THEN (chan'.closed /\ ~chan.closed) => shared'.refcount = 0
          ELSE (chan'.released /\ ~chan.released) => chan'.refcount = 0]_vars

\* C26: aclose() on an adapter has the backend's aclose() run first and then
\* the teardown of each adapter above it, from the innermost outwards,
\* whether the backend's aclose() raised or not; no adapter's teardown
\* fails, and the call ends as the backend's aclose() ended.
C26_CloseOrder ==
  (last.op = "aclose" /\ last.depth > 0)
    => /\ Len(last.log) = last.depth + 1
       /\ \A i \in 1..Len(last.log) : last.log[i][1] = i - 1
       /\ \A i \in 2..Len(last.log) : last.log[i][2] = "ok"
       /\ last.tag = last.log[1][2]

C26_Witness ==
  /\ last.op = "aclose" /\ last.depth > 0 /\ last.tag = "Error"
  /\ last.log[1] = <<0, "Error">>
  /\ last.log[Len(last.log)] = <<last.depth, "ok">>

\* the namespaces of the top-level map that hold no key
Stale(it) == {ns \in DOMAIN it : DOMAIN it[ns] = {}}

\* C27: a delete(k) on a DictDatastore that removes the last key of k's
\* namespace removes the namespace from the top-level map; when the map
\* held no empty namespace before (as after puts and deletes of stored
\* keys only) and the delete removes the last key of the store, the map is
\* empty afterwards.
C27_NamespaceCleanup ==
  [][(/\ items' # items /\ last'.op = "delete" /\ last'.leaf = "dict"
      /\ last'.tag = "ok")
       => /\ KeyPath(last'.key) \in DOMAIN items
          /\ last'.key \in DOMAIN items[KeyPath(last'.key)]
          /\ DOMAIN items[KeyPath(last'.key)] = {last'.key}
               => KeyPath(last'.key) \notin DOMAIN items'
          /\ (Stale(items) = {} /\ \A ns \in DOMAIN items' : DOMAIN items'[ns] = {})
               => items' = EmptyDict]_vars

C27_Witness ==
  /\ last.op = "delete" /\ last.leaf = "dict" /\ last.tag = "ok" /\ last.had
  /\ items = EmptyDict

\* C29: no namespace of the top-level map of a DictDatastore is ever an
\* empty map, whatever put, get, get_all, contains, stat and delete calls
\* were made, failing ones included.
C29_NoStaleNamespace == Stale(items) = {}

C30_RefcountCountsHandles ==
  /\ [](IF shared.made THEN shared.refcount >= 0 ELSE chan.refcount >= 0)
  /\ [][IF shared.made
          THEN shared'.refcount < shared.refcount => handles[cret'.h] # "closed"
          ELSE chan'.refcount < chan.refcount => ~chan.closed]_vars

\* C31: a put(k, v) on a DictDatastore (bare or behind adapters) that
\* fails, because draining or closing the value stream raised, leaves the
\* top-level map exactly as it was: the previous value of k stays, no
\* partial value is stored and no namespace is created.
C31_FailedPutAtomic ==
  [][(last'.op = "put" /\ last'.leaf = "dict" /\ last'.tag # "ok")
       => items' = items]_vars

C31_Witness ==
  /\ last.op = "put" /\ last.leaf = "dict" /\ last.tag # "ok"
  /\ Len(last.arg) > 0
  /\ last.had /\ Lookup(items, last.key)[1]

\* C32: while one task is the only reader of a tee byte stream, for every
\* side sender attached before the first receive the chunks enqueued to
\* it are the chunks returned to the reader so far, followed by at most
\* one more chunk (the one in flight); a call that returns a non-empty
\* chunk returns the chunk enqueued last.
C32_SideLead ==
  /\ [](\A i \in 1..Len(sides) :
          hist.at[i] = 0
            => \/ Flat(sides[i].sent) = hist.out
               \/ /\ sides[i].sent # <<>>
                  /\ Flat(sides[i].sent)
                       = hist.out \o sides[i].sent[Len(sides[i].sent)]
                  /\ tasks[1].pc = "sending"
                       => sides[i].sent[Len(sides[i].sent)] = tasks[1].value)
  /\ [][(tasks[1].pc = "sending" /\ tasks'[1].pc = "idle"
           /\ tasks'[1].tag = "data" /\ tasks'[1].data # <<>>)
          => \A i \in 1..Len(sides) :
               hist.at[i] = 0
                 => /\ sides'[i].sent = sides[i].sent
                    /\ sides[i].sent[Len(sides[i].sent)] = tasks'[1].data]_vars

C32_Witness ==
  /\ Len(sides) > 0 /\ hist.at[1] = 0
  /\ hist.out # <<>>
  /\ tasks[1].pc = "sending"
  /\ Flat(sides[1].sent) = hist.out \o tasks[1].value

====
